---- MODULE Spec2Model ----
(***************************************************************************)
(* Model of tools/run_tests.py: the lab test harness.                      *)
(*                                                                         *)
(* Text is a sequence of symbols.  A symbol is a character, or a lexeme    *)
(* that the harness's regular expressions recognise as one unit: a numeric *)
(* literal, a bracketed assignment x[i] = v, a juxtaposed assignment       *)
(* xi = v.  Numbers are integers in a fixed unit (fixed point); float      *)
(* rounding is not modelled.  An optional manifest field is a sequence of  *)
(* length at most one: << >> is an absent key (or None), <<v>> is value v. *)
(* Expectation and input files (values ending in ".txt") are taken as      *)
(* already read: out_contains and out_regex are the resolved lists.        *)
(***************************************************************************)
EXTENDS Integers, Sequences, FiniteSets, TLC

VARIABLES
    pc,                       \* position of main(), or of the function driver
    err,                      \* why the run ended: "" or the error's name
    status,                   \* process exit status, -1 while running
    nTests,                   \* len(tests)
    select_variant_by_output, \* manifest flag
    default_tol,              \* manifest solution_tolerance
    index,                    \* 1-based index of the test being processed
    failed,                   \* main's failure counter
    executed,                 \* number of run_test calls made so far
    unmet,                    \* number of reported tests with a non-empty fail-list
    test,                     \* the manifest entry bound by the for loop
    output_text,              \* stdout (+ stderr) of the current test
    passed,                   \* verdict of the current test
    missing,                  \* fail-list of the current test
    evals,                    \* the evaluations made for the current test, in order
    selected,                 \* position of selected_variant in variants, 0 for None
    fn,                       \* function applied by the function driver
    args,                     \* its arguments
    ret                       \* its result

vars == <<pc, err, status, nTests, select_variant_by_output, default_tol, index,
          failed, executed, unmet, test, output_text, passed, missing, evals,
          selected, fn, args, ret>>

mainVars == <<err, status, nTests, select_variant_by_output, default_tol, index,
              failed, executed, unmet, test, output_text, passed, missing, evals,
              selected>>

(***************************************************************************)
(* Symbols                                                                 *)
(***************************************************************************)
Ch(c) == [k |-> "ch", c |-> c, i |-> 0, v |-> 0]
Num(v) == [k |-> "num", c |-> "", i |-> 0, v |-> v]
Br(i, v) == [k |-> "br", c |-> "", i |-> i, v |-> v]
Jx(i, v) == [k |-> "jx", c |-> "", i |-> i, v |-> v]
Dot == [k |-> "any", c |-> ".", i |-> 0, v |-> 0]  \* the character ".", the regex atom "."

Hyphen == Ch("-")
EnDash == Ch("u2013")
EmDash == Ch("u2014")
MinusSign == Ch("u2212")
NL == Ch("\n")
SP == Ch(" ")

Whitespace == {NL, SP}

(***************************************************************************)
(* normalize_text: the three typographic dashes become the ASCII hyphen.   *)
(***************************************************************************)
normalize_text(value) ==
    [j \in 1..Len(value) |->
        IF value[j] \in {EnDash, EmDash, MinusSign} THEN Hyphen ELSE value[j]]

\* Python's `sub in s` on strings
In(sub, s) ==
    \E p \in 0..(Len(s) - Len(sub)) :
        \A j \in 1..Len(sub) : s[p + j] = sub[j]

\* one regex atom against one symbol: "." matches any character but a newline
AtomMatches(atom, sym) ==
    IF atom.k = "any" THEN sym # NL ELSE atom = sym

\* re.search(pattern, s) is not None, for a pattern of literals and "."
re_search(pattern, s) ==
    \E p \in 0..(Len(s) - Len(pattern)) :
        \A j \in 1..Len(pattern) : AtomMatches(pattern[j], s[p + j])

(***************************************************************************)
(* Entries of a fail-list                                                  *)
(***************************************************************************)
MissingItem(item) == [kind |-> "contains", item |-> item, key |-> 0, val |-> 0]
MissingRegex(pattern) == [kind |-> "regex", item |-> pattern, key |-> 0, val |-> 0]
SolutionNotFound == [kind |-> "solution:not_found", item |-> << >>, key |-> 0, val |-> 0]
KeyNotFound(key) == [kind |-> "solution:x:not_found", item |-> << >>, key |-> key, val |-> 0]
Mismatch(key, val) == [kind |-> "solution:x:expected", item |-> << >>, key |-> key, val |-> val]

RECURSIVE check_contains_loop(_, _)
check_contains_loop(normalized_stdout, expected) ==
    IF expected = << >> THEN << >>
    ELSE LET item == Head(expected)
             normalized_item == normalize_text(item)
         IN  (IF ~In(normalized_item, normalized_stdout)
              THEN <<MissingItem(item)>> ELSE << >>)
             \o check_contains_loop(normalized_stdout, Tail(expected))

check_contains(stdout, expected) ==
    check_contains_loop(normalize_text(stdout), expected)

RECURSIVE check_regex_loop(_, _)
check_regex_loop(normalized_stdout, expected) ==
    IF expected = << >> THEN << >>
    ELSE LET pattern == Head(expected)
         IN  (IF ~re_search(pattern, normalized_stdout)
              THEN <<MissingRegex(pattern)>> ELSE << >>)
             \o check_regex_loop(normalized_stdout, Tail(expected))

check_regex(stdout, expected) ==
    check_regex_loop(normalize_text(stdout), expected)

(***************************************************************************)
(* extract_solution: two finditer passes over the output.  The bracketed   *)
(* pass assigns (a later match overwrites an earlier one); the juxtaposed  *)
(* pass assigns only an index that has no value yet.                       *)
(***************************************************************************)
Put(values, key, val) ==
    [x \in (DOMAIN values) \cup {key} |-> IF x = key THEN val ELSE values[x]]

RECURSIVE BracketedPass(_, _)
BracketedPass(stdout, values) ==
    IF stdout = << >> THEN values
    ELSE LET match == Head(stdout)
         IN  BracketedPass(Tail(stdout),
                 IF match.k = "br" THEN Put(values, match.i, match.v) ELSE values)

RECURSIVE JuxtaposedPass(_, _)
JuxtaposedPass(stdout, values) ==
    IF stdout = << >> THEN values
    ELSE LET match == Head(stdout)
         IN  JuxtaposedPass(Tail(stdout),
                 IF match.k = "jx" /\ match.i \notin DOMAIN values
                 THEN Put(values, match.i, match.v) ELSE values)

extract_solution(stdout) ==
    JuxtaposedPass(stdout, BracketedPass(stdout, << >>))

Abs(x) == IF x < 0 THEN -x ELSE x

\* mutant: a difference equal to the tolerance is a mismatch
ExceedsTolerance_AtLeast(actual, expected_value, tol) ==
    Abs(actual - expected_value) >= tol

\* the tolerance comparison of check_solution
ExceedsTolerance(actual, expected_value, tol) ==
    Abs(actual - expected_value) > tol

\* the key of expected position i (0-based)
SolutionKey(i, is_zero_based) ==
    IF is_zero_based THEN i ELSE i + 1

RECURSIVE check_solution_loop(_, _, _, _, _)
check_solution_loop(found, expected, i, is_zero_based, tol) ==
    IF i >= Len(expected) THEN << >>
    ELSE LET expected_value == expected[i + 1]
             key == SolutionKey(i, is_zero_based)
         IN  (IF key \notin DOMAIN found THEN <<KeyNotFound(key)>>
              ELSE IF ExceedsTolerance(found[key], expected_value, tol)
                   THEN <<Mismatch(key, expected_value)>>
                   ELSE << >>)
             \o check_solution_loop(found, expected, i + 1, is_zero_based, tol)

check_solution(stdout, expected, tol) ==
    LET found == extract_solution(stdout)
    IN  IF DOMAIN found = {} THEN <<SolutionNotFound>>
        ELSE check_solution_loop(found, expected, 0, 0 \in DOMAIN found, tol)

(***************************************************************************)
(* parse_input_tolerance                                                   *)
(***************************************************************************)
ToleranceFactor == 3

\* re.findall of the numeric-literal pattern: an assignment lexeme holds
\* two literals, its index and its value
RECURSIVE Literals(_)
Literals(input_text) ==
    IF input_text = << >> THEN << >>
    ELSE LET s == Head(input_text)
         IN  (IF s.k = "num" THEN <<s.v>>
              ELSE IF s.k \in {"br", "jx"} THEN <<s.i, s.v>>
              ELSE << >>)
             \o Literals(Tail(input_text))

parse_input_tolerance(input_text, dtol) ==
    LET matches == Literals(input_text)
    IN  IF matches = << >> THEN dtol
        ELSE matches[Len(matches)] * ToleranceFactor

(***************************************************************************)
(* extract_first_line and get_variant_selector                             *)
(***************************************************************************)
RECURSIVE lstrip(_)
lstrip(s) ==
    IF s # << >> /\ Head(s) \in Whitespace THEN lstrip(Tail(s)) ELSE s

RECURSIVE rstrip(_)
rstrip(s) ==
    IF s # << >> /\ s[Len(s)] \in Whitespace
    THEN rstrip(SubSeq(s, 1, Len(s) - 1)) ELSE s

strip(s) == rstrip(lstrip(s))

RECURSIVE splitlines(_)
splitlines(s) ==
    IF s = << >> THEN << >>
    ELSE LET breaks == {j \in 1..Len(s) : s[j] = NL}
         IN  IF breaks = {} THEN <<s>>
             ELSE LET n == CHOOSE j \in breaks : \A m \in breaks : j <= m
                  IN  <<SubSeq(s, 1, n - 1)>> \o splitlines(SubSeq(s, n + 1, Len(s)))

RECURSIVE FirstNonBlank(_)
FirstNonBlank(lines) ==
    IF lines = << >> THEN << >>
    ELSE LET stripped == strip(Head(lines))
         IN  IF stripped # << >> THEN stripped ELSE FirstNonBlank(Tail(lines))

extract_first_line(text) == FirstNonBlank(splitlines(text))

\* out_contains is modelled in its list form
get_variant_selector(variant) ==
    IF strip(variant.selector) # << >> THEN strip(variant.selector)
    ELSE IF variant.out_contains # << >> THEN strip(variant.out_contains[1])
    ELSE << >>

\* mutant: an empty selector is not skipped
SelectorMatches_EmptySelector(variant, normalized_first) ==
    In(normalize_text(get_variant_selector(variant)), normalized_first)

\* line 298: the test that selects a variant
SelectorMatches(variant, normalized_first) ==
    LET selector == get_variant_selector(variant)
    IN  selector # << >> /\ In(normalize_text(selector), normalized_first)

\* lines 293-301: position of the first variant whose selector occurs in the
\* first non-blank line, 0 when selection is off or nothing matches
SelectVariant(variants, text, select) ==
    IF ~select THEN 0
    ELSE LET normalized_first == normalize_text(extract_first_line(text))
             hits == {j \in 1..Len(variants) :
                         SelectorMatches(variants[j], normalized_first)}
         IN  IF hits = {} THEN 0
             ELSE CHOOSE j \in hits : \A m \in hits : j <= m

(***************************************************************************)
(* evaluate_variant, as main calls it: every key of the dict that main     *)
(* builds is present, an undeclared one with the value None.               *)
(***************************************************************************)
\* float(variant.get("tolerance_scale") or 1.0)
VariantScale(tolerance_scale) ==
    IF tolerance_scale = << >> \/ tolerance_scale[1] = 0 THEN 1 ELSE tolerance_scale[1]

\* float(test.get("tolerance_scale", 1.0))
TestScale(tolerance_scale) ==
    IF tolerance_scale = << >> THEN 1 ELSE tolerance_scale[1]

\* does float(variant.get("solution_tolerance", default_tol)) raise TypeError:
\* the key is present, so the default never applies, and float(None) raises
FixedToleranceRaises(variant) ==
    variant.solution_tolerance = << >>

evaluate_variant(stdout, variant, input_text, dtol) ==
    LET text_missing == check_contains(stdout, variant.out_contains)
                        \o check_regex(stdout, variant.out_regex)
    IN  IF variant.expected_solution = << >>
        THEN [raised |-> FALSE, passed |-> text_missing = << >>,
              missing |-> text_missing, tol |-> << >>]
        ELSE IF variant.use_input_tolerance
        THEN LET scale == VariantScale(variant.tolerance_scale)
                 tol == parse_input_tolerance(input_text, dtol) * scale
                 m == text_missing
                      \o check_solution(stdout, variant.expected_solution[1], tol)
             IN  [raised |-> FALSE, passed |-> m = << >>, missing |-> m,
                  tol |-> <<tol>>]
        ELSE IF FixedToleranceRaises(variant)
        THEN [raised |-> TRUE, passed |-> FALSE, missing |-> text_missing,
              tol |-> << >>]
        ELSE LET tol == variant.solution_tolerance[1]
                 m == text_missing
                      \o check_solution(stdout, variant.expected_solution[1], tol)
             IN  [raised |-> FALSE, passed |-> m = << >>, missing |-> m,
                  tol |-> <<tol>>]

\* mutant: the loop does not stop at a passing variant
RECURSIVE VariantLoop_NoShortCircuit(_, _, _, _, _, _, _)
VariantLoop_NoShortCircuit(variants, order, stdout, input_text, dtol, has_selected, done) ==
    IF order = << >> THEN done
    ELSE LET r == evaluate_variant(stdout, variants[Head(order)], input_text, dtol)
             e == [variant |-> Head(order), raised |-> r.raised,
                   passed |-> r.passed, missing |-> r.missing, tol |-> r.tol]
         IN  IF r.raised \/ has_selected
             THEN Append(done, e)
             ELSE VariantLoop_NoShortCircuit(variants, Tail(order), stdout, input_text,
                                             dtol, has_selected, Append(done, e))

\* lines 303-324: the loop over variant_list; order holds the positions of
\* variant_list in variants
RECURSIVE VariantLoop(_, _, _, _, _, _, _)
VariantLoop(variants, order, stdout, input_text, dtol, has_selected, done) ==
    IF order = << >> THEN done
    ELSE LET r == evaluate_variant(stdout, variants[Head(order)], input_text, dtol)
             e == [variant |-> Head(order), raised |-> r.raised,
                   passed |-> r.passed, missing |-> r.missing, tol |-> r.tol]
         IN  IF r.raised \/ r.passed \/ has_selected
             THEN Append(done, e)
             ELSE VariantLoop(variants, Tail(order), stdout, input_text, dtol,
                              has_selected, Append(done, e))

\* mutant: the selected variant does not narrow the list
VariantList_IgnoresSelection(variants, sel) == [j \in 1..Len(variants) |-> j]

\* line 303
VariantList(variants, sel) ==
    IF sel # 0 THEN <<sel>> ELSE [j \in 1..Len(variants) |-> j]

\* lines 287-324
EvaluateVariants(variants, stdout, input_text, dtol, select) ==
    LET sel == SelectVariant(variants, stdout, select)
    IN  VariantLoop(variants, VariantList(variants, sel), stdout, input_text,
                    dtol, sel # 0, << >>)

\* lines 325-336: the test case's direct expectations
EvaluateDirect(t, stdout, input_text, dtol) ==
    LET text_missing == check_contains(stdout, t.out_contains)
                        \o check_regex(stdout, t.out_regex)
    IN  IF t.expected_solution = << >>
        THEN <<[variant |-> 0, raised |-> FALSE, passed |-> text_missing = << >>,
                missing |-> text_missing, tol |-> << >>]>>
        ELSE LET tol == IF t.use_input_tolerance
                        THEN parse_input_tolerance(input_text, dtol)
                             * TestScale(t.tolerance_scale)
                        ELSE IF t.solution_tolerance = << >> THEN dtol
                             ELSE t.solution_tolerance[1]
                 m == text_missing
                      \o check_solution(stdout, t.expected_solution[1], tol)
             IN  <<[variant |-> 0, raised |-> FALSE, passed |-> m = << >>,
                    missing |-> m, tol |-> <<tol>>]>>

\* lines 287-336
Evaluate(t, stdout, dtol, select) ==
    IF t.variants # << >>
    THEN EvaluateVariants(t.variants, stdout, t.in, dtol, select)
    ELSE EvaluateDirect(t, stdout, t.in, dtol)

(***************************************************************************)
(* The inputs: manifest entries, input texts and program outputs           *)
(***************************************************************************)
MaxTests == 2      \* most tests in a manifest
MaxVariants == 2   \* most variants of a test case

TextA == <<Ch("a")>>
TextB == <<Ch("b")>>

\* a variant: its selector, text expectations, expected solution (es),
\* solution_tolerance (st), use_input_tolerance (uit), tolerance_scale (ts)
Variant(selector, out_contains, out_regex, es, st, uit, ts) ==
    [selector |-> selector, out_contains |-> out_contains,
     out_regex |-> out_regex, expected_solution |-> es,
     solution_tolerance |-> st, use_input_tolerance |-> uit,
     tolerance_scale |-> ts]

\* a test case: the same fields, with the input text and the variants
TestCase(in, out_contains, out_regex, es, st, uit, ts, variants) ==
    [in |-> in, out_contains |-> out_contains, out_regex |-> out_regex,
     expected_solution |-> es, solution_tolerance |-> st,
     use_input_tolerance |-> uit, tolerance_scale |-> ts,
     variants |-> variants]

\* variants that declare text expectations only
TextVariants ==
    { Variant(<< >>, <<TextA>>, << >>, << >>, << >>, FALSE, << >>),
      Variant(TextB, <<TextA>>, << >>, << >>, << >>, FALSE, << >>),
      Variant(TextA, <<TextB>>, << >>, << >>, << >>, FALSE, << >>),
      Variant(<<SP>>, << >>, <<<<Dot, Ch("b")>>>>, << >>, << >>, FALSE, << >>),
      Variant(<< >>, << >>, << >>, << >>, << >>, FALSE, << >>) }

\* variants that declare an expected solution
NumericVariants ==
    { Variant(TextA, << >>, << >>, <<<<1>>>>, <<0>>, FALSE, << >>),
      Variant(<< >>, << >>, << >>, <<<<1>>>>, << >>, FALSE, << >>),
      Variant(TextB, << >>, << >>, <<<<1>>>>, << >>, TRUE, << >>),
      Variant(<< >>, << >>, << >>, <<<<1>>>>, <<0>>, TRUE, <<2>>) }

VariantPool == TextVariants \cup NumericVariants

\* the variants of a test case: distinct members of the pool, in any order
VariantLists ==
    { vs \in UNION { [1..n -> VariantPool] : n \in 1..MaxVariants } :
        \A j, m \in 1..Len(vs) : vs[j] = vs[m] => j = m }

\* the text of the "in" field: without and with numeric literals
Inputs == { TextA, <<Num(1), SP, Num(2)>> }

DirectTests ==
    { TestCase(in, oc, rx, << >>, << >>, FALSE, << >>, << >>) :
        in \in Inputs, oc \in {<< >>, <<TextA>>, <<TextA, TextB>>},
        rx \in {<< >>, <<<<Dot, Ch("b")>>>>} }
    \cup
    { TestCase(in, << >>, << >>, <<<<1>>>>, st, uit, ts, << >>) :
        in \in Inputs, st \in {<< >>, <<0>>}, uit \in BOOLEAN,
        ts \in {<< >>, <<2>>} }

VariantTests ==
    { TestCase(in, << >>, << >>, << >>, << >>, FALSE, << >>, vs) :
        in \in Inputs, vs \in VariantLists }

TestCases == DirectTests \cup VariantTests

OutputHeads ==
    { << >>, TextA, TextB, <<Ch("a"), Ch("b")>>, <<SP, NL, Ch("b"), SP>> }

OutputTails ==
    { << >>, <<NL, Br(0, 1)>>, <<NL, Br(0, 2)>>, <<NL, Jx(1, 1)>> }

Outputs == { h \o t : h \in OutputHeads, t \in OutputTails }

DefaultTolerances == {1}

(***************************************************************************)
(* main()                                                                  *)
(***************************************************************************)
NoTest == TestCase(<< >>, << >>, << >>, << >>, << >>, FALSE, << >>, << >>)

MainIdle ==
    /\ err = ""
    /\ status = -1
    /\ nTests = -1
    /\ select_variant_by_output = FALSE
    /\ default_tol = 0
    /\ index = 0
    /\ failed = 0
    /\ executed = 0
    /\ unmet = 0
    /\ test = NoTest
    /\ output_text = << >>
    /\ passed = FALSE
    /\ missing = << >>
    /\ evals = << >>
    /\ selected = 0

DriverIdle ==
    /\ fn = ""
    /\ args = << >>
    /\ ret = << >>

Init ==
    /\ pc = "start"
    /\ MainIdle
    /\ DriverIdle

\* `return 1` and an exception that leaves main both end the process with 1
Exit(why) ==
    /\ pc' = "exit"
    /\ err' = why
    /\ status' = 1

\* lines 239-242
CheckLab ==
    /\ pc = "start"
    /\ \E lab_set \in BOOLEAN :
        IF lab_set
        THEN pc' = "lab" /\ UNCHANGED <<err, status>>
        ELSE Exit("LAB unset")
    /\ UNCHANGED <<nTests, select_variant_by_output, default_tol, index, failed,
                   executed, unmet, test, output_text, passed, missing, evals,
                   selected, fn, args, ret>>

\* lines 244-247
CheckLabDir ==
    /\ pc = "lab"
    /\ \E lab_dir_exists \in BOOLEAN :
        IF lab_dir_exists
        THEN pc' = "lab_dir" /\ UNCHANGED <<err, status>>
        ELSE Exit("lab directory missing")
    /\ UNCHANGED <<nTests, select_variant_by_output, default_tol, index, failed,
                   executed, unmet, test, output_text, passed, missing, evals,
                   selected, fn, args, ret>>

Languages == {"python", "c", "cpp", "java", "go"}

\* compile_program: what the call does, given the detected language, whether
\* the compiler succeeds and whether RUN_CMD is set
compile_program(lang, compiler_ok, run_cmd) ==
    IF lang = "python" THEN "cmd"
    ELSE IF lang \in Languages THEN (IF compiler_ok THEN "cmd" ELSE "CalledProcessError")
    ELSE IF run_cmd THEN "cmd"
    ELSE "RuntimeError"

\* lines 249-251
Compile ==
    /\ pc = "lab_dir"
    /\ \E lang \in Languages \cup {""}, compiler_ok \in BOOLEAN, run_cmd \in BOOLEAN :
        LET cmd == compile_program(lang, compiler_ok, run_cmd)
        IN  IF cmd = "cmd"
            THEN pc' = "compiled" /\ UNCHANGED <<err, status>>
            ELSE Exit(cmd)
    /\ UNCHANGED <<nTests, select_variant_by_output, default_tol, index, failed,
                   executed, unmet, test, output_text, passed, missing, evals,
                   selected, fn, args, ret>>

\* lines 253-259, read_manifest
ReadManifest ==
    /\ pc = "compiled"
    /\ \E manifest_exists \in BOOLEAN :
        IF manifest_exists
        THEN /\ pc' = "manifest"
             /\ nTests' \in 0..MaxTests
             /\ select_variant_by_output' \in BOOLEAN
             /\ default_tol' \in DefaultTolerances
             /\ UNCHANGED <<err, status>>
        ELSE /\ Exit("FileNotFoundError: manifest")
             /\ UNCHANGED <<nTests, select_variant_by_output, default_tol>>
    /\ UNCHANGED <<index, failed, executed, unmet, test, output_text, passed,
                   missing, evals, selected, fn, args, ret>>

\* mutant: the empty test list is not checked
TestsEmpty_Never(n) == FALSE

\* line 266: `not tests`
TestsEmpty(n) == n = 0

\* lines 266-270
CheckTests ==
    /\ pc = "manifest"
    /\ IF TestsEmpty(nTests)
       THEN Exit("no tests")
       ELSE pc' = "loop" /\ UNCHANGED <<err, status>>
    /\ UNCHANGED <<nTests, select_variant_by_output, default_tol, index, failed,
                   executed, unmet, test, output_text, passed, missing, evals,
                   selected, fn, args, ret>>

\* mutant: the counter is assigned, not incremented
CountFailure_Assigns(n, ok) == IF ok THEN n ELSE 1

\* lines 338-339
CountFailure(n, ok) == IF ok THEN n ELSE n + 1

\* line 365
ExitStatus(n) == IF n = 0 THEN 0 ELSE 1

\* line 275: resolve_input raises (no "in" field, or the input file is absent)
ResolveInputRaises ==
    /\ pc = "loop"
    /\ index < nTests
    /\ index' = index + 1
    /\ test' = NoTest
    /\ output_text' = << >>
    /\ passed' = FALSE
    /\ missing' = << >>
    /\ evals' = << >>
    /\ selected' = 0
    /\ Exit("FileNotFoundError: input")
    /\ UNCHANGED <<nTests, select_variant_by_output, default_tol, failed,
                   executed, unmet, fn, args, ret>>

\* lines 271-282: run_test raises subprocess.TimeoutExpired, which nothing catches
RunTimesOut ==
    /\ pc = "loop"
    /\ index < nTests
    /\ \E t \in TestCases :
        /\ index' = index + 1
        /\ test' = t
        /\ executed' = executed + 1
        /\ output_text' = << >>
        /\ passed' = FALSE
        /\ missing' = << >>
        /\ evals' = << >>
        /\ selected' = 0
        /\ Exit("TimeoutExpired")
    /\ UNCHANGED <<nTests, select_variant_by_output, default_tol, failed, unmet,
                   fn, args, ret>>

\* lines 271-363: one iteration in which the program ends within the timeout
RunAndVerify ==
    /\ pc = "loop"
    /\ index < nTests
    /\ \E t \in TestCases, out \in Outputs :
        LET ev == Evaluate(t, out, default_tol, select_variant_by_output)
            last == ev[Len(ev)]
        IN  /\ index' = index + 1
            /\ test' = t
            /\ executed' = executed + 1
            /\ output_text' = out
            /\ evals' = ev
            /\ selected' = IF t.variants = << >> THEN 0
                           ELSE SelectVariant(t.variants, out, select_variant_by_output)
            /\ IF last.raised
               THEN /\ Exit("TypeError")
                    /\ passed' = FALSE
                    /\ missing' = << >>
                    /\ UNCHANGED <<failed, unmet>>
               ELSE /\ pc' = "reported"
                    /\ passed' = last.passed
                    /\ missing' = last.missing
                    /\ failed' = CountFailure(failed, last.passed)
                    /\ unmet' = IF last.missing # << >> THEN unmet + 1 ELSE unmet
                    /\ UNCHANGED <<err, status>>
    /\ UNCHANGED <<nTests, select_variant_by_output, default_tol, fn, args, ret>>

\* line 271: the for loop takes up the next entry, or ends; the iteration
\* reads none of the previous iteration's locals before it assigns them
NextIteration ==
    /\ pc = "reported"
    /\ pc' = "loop"
    /\ test' = NoTest
    /\ output_text' = << >>
    /\ passed' = FALSE
    /\ missing' = << >>
    /\ evals' = << >>
    /\ selected' = 0
    /\ UNCHANGED <<err, status, nTests, select_variant_by_output, default_tol,
                   index, failed, executed, unmet, fn, args, ret>>

\* line 365
Finish ==
    /\ pc = "loop"
    /\ index = nTests
    /\ pc' = "done"
    /\ status' = ExitStatus(failed)
    /\ UNCHANGED <<err, nTests, select_variant_by_output, default_tol, index,
                   failed, executed, unmet, test, output_text, passed, missing,
                   evals, selected, fn, args, ret>>

Next ==
    \/ CheckLab
    \/ CheckLabDir
    \/ Compile
    \/ ReadManifest
    \/ CheckTests
    \/ ResolveInputRaises
    \/ RunTimesOut
    \/ RunAndVerify
    \/ NextIteration
    \/ Finish

Spec == Init /\ [][Next]_vars

(***************************************************************************)
(* The functions applied on their own to every input of a bounded set      *)
(***************************************************************************)
MaxTextLen == 2    \* longest output given to check_contains / check_regex
MaxLexemes == 2    \* longest output given to check_solution

TextChars == {Ch("a"), Dot, Hyphen, EnDash, EmDash, MinusSign}

TextsUpTo(n) == UNION { [1..m -> TextChars] : m \in 0..n }

\* expectation strings of one or two characters
Items == { <<c>> : c \in TextChars } \cup { <<c, d>> : c \in TextChars, d \in TextChars }

ExpectedLists ==
    { << >> } \cup { <<x>> : x \in Items }
              \cup { <<x, <<c>> >> : x \in Items, c \in TextChars }

TextArgs == [stdout : TextsUpTo(MaxTextLen), expected : ExpectedLists]

Lexemes ==
    { Br(i, v) : i \in {0, 1, 2}, v \in {1, 2} }
    \cup { Jx(i, v) : i \in {0, 1, 2}, v \in {1, 2} }
    \cup { Ch("a") }

ExpectedSolutions == UNION { [1..m -> {1, 2, 3}] : m \in 0..2 }

SolutionArgs ==
    [stdout : UNION { [1..m -> Lexemes] : m \in 0..MaxLexemes },
     expected : ExpectedSolutions, tol : {0, 1}]

Return(name, value) ==
    /\ pc = "call"
    /\ pc' = "returned"
    /\ fn' = name
    /\ ret' = value
    /\ UNCHANGED args
    /\ UNCHANGED mainVars

CallCheckContains == Return("check_contains", check_contains(args.stdout, args.expected))

CallCheckRegex == Return("check_regex", check_regex(args.stdout, args.expected))

CallCheckSolution ==
    Return("check_solution", check_solution(args.stdout, args.expected, args.tol))

InitText ==
    /\ pc = "call"
    /\ MainIdle
    /\ fn = ""
    /\ args \in TextArgs
    /\ ret = << >>

NextText == CallCheckContains \/ CallCheckRegex

SpecText == InitText /\ [][NextText]_vars

InitSolution ==
    /\ pc = "call"
    /\ MainIdle
    /\ fn = ""
    /\ args \in SolutionArgs
    /\ ret = << >>

NextSolution == CallCheckSolution

SpecSolution == InitSolution /\ [][NextSolution]_vars

(***************************************************************************)
(* Properties                                                              *)
(***************************************************************************)
ConfigErrors ==
    {"LAB unset", "lab directory missing", "RuntimeError",
     "FileNotFoundError: manifest", "no tests"}

\* the variants whose selector (explicit, else first out_contains entry)
\* occurs in the first non-blank line of the output, up to dashes
SelectorHits ==
    LET first == normalize_text(extract_first_line(output_text))
    IN  { j \in 1..Len(test.variants) :
            LET selector == get_variant_selector(test.variants[j])
            IN  selector # << >> /\ In(normalize_text(selector), first) }

Least(S) == CHOOSE j \in S : \A m \in S : j <= m

\* the manifest entry or variant that evaluation e was made for
Declared(e) == IF e.variant = 0 THEN test ELSE test.variants[e.variant]

\* C1: a test case whose program runs longer than timeout_sec is recorded as
\* failed (the failure counter is incremented) and the run is not aborted.
C1_TimeoutRecordedRunContinues ==
    err = "TimeoutExpired" => (failed >= 1 /\ pc # "exit" /\ status = -1)

\* C2: when the loop has ended, the exit status is 0 iff every test passed,
\* non-zero otherwise, and the failure counter is the number of tests whose
\* verification did not pass; every test of the manifest was run.
C2_ExitStatusCountsFailures ==
    pc = "done" =>
        /\ status \in {0, 1}
        /\ (status = 0) <=> (unmet = 0)
        /\ failed = unmet
        /\ executed = nTests

C2_Witness ==
    pc = "done" /\ nTests = 2 /\ failed = 2 /\ status = 1

C5_FixedToleranceDeclaredOrDefault ==
    \A j \in 1..Len(evals) :
        LET d == Declared(evals[j])
        IN  (d.expected_solution # << >> /\ ~d.use_input_tolerance) =>
                evals[j].tol = <<IF d.solution_tolerance # << >>
                                 THEN d.solution_tolerance[1] ELSE default_tol>>

\* C6: in dynamic tolerance mode the tolerance is the last numeric literal of
\* the input times 3 times tolerance_scale (1 when none is declared), and the
\* manifest-wide default, whatever the scale, when the input has no literal.
C6_DynamicToleranceFromLastLiteral ==
    \A j \in 1..Len(evals) :
        LET d == Declared(evals[j])
            lits == Literals(test.in)
            scale == IF d.tolerance_scale = << >> THEN 1 ELSE d.tolerance_scale[1]
        IN  (d.expected_solution # << >> /\ d.use_input_tolerance) =>
                evals[j].tol = <<IF lits = << >> THEN default_tol
                                 ELSE lits[Len(lits)] * 3 * scale>>

\* C9: a configuration error ends the run with a non-zero status before the
\* program under test has been executed for any test case.
C9_ConfigErrorEndsRunBeforeAnyTest ==
    /\ err \in ConfigErrors => (pc = "exit" /\ status = 1 /\ executed = 0)
    /\ nTests = 0 => (executed = 0 /\ pc \in {"manifest", "exit"})

C9_Witness ==
    pc = "exit" /\ err = "no tests" /\ nTests = 0 /\ status = 1 /\ executed = 0

\* C10: with selection on, when no variant's selector occurs in the first
\* non-blank line (or there is no such line), no variant is selected and the
\* evaluation is that of non-selection mode: declared order, stop at the first
\* pass, the last variant's fail-list if none passes.
C10_NoMatchFallsBackToDeclaredOrder ==
    (select_variant_by_output /\ test.variants # << >> /\ evals # << >>
        /\ SelectorHits = {}) =>
        /\ selected = 0
        /\ evals = EvaluateVariants(test.variants, output_text, test.in,
                                    default_tol, FALSE)
        /\ \A j \in 1..Len(evals) :
            /\ evals[j].variant = j
            /\ j < Len(evals) => evals[j].missing # << >>
        /\ pc = "reported" =>
            /\ missing = evals[Len(evals)].missing
            /\ passed = (missing = << >>)
            /\ ~passed => Len(evals) = Len(test.variants)

C10_Witness ==
    /\ select_variant_by_output
    /\ pc = "reported"
    /\ SelectorHits = {}
    /\ extract_first_line(output_text) # << >>
    /\ \E j \in 1..Len(test.variants) : get_variant_selector(test.variants[j]) # << >>
    /\ Len(evals) = 2
    /\ passed

Dashes == {Hyphen, EnDash, EmDash, MinusSign}

\* sub occurs in s when every dash counts as the same character
OccursUpToDashes(sub, s) ==
    \E p \in 0..(Len(s) - Len(sub)) :
        \A j \in 1..Len(sub) :
            \/ s[p + j] = sub[j]
            \/ (s[p + j] \in Dashes /\ sub[j] \in Dashes)

\* C7: check_solution maps expected position i to key i when index 0 was
\* extracted and to key i+1 otherwise; its fail-list holds a not-found entry
\* for exactly the positions whose key is absent, a mismatch entry for exactly
\* the positions whose value differs from the expected one by more than the
\* tolerance, and nothing else; for an empty extraction it is
\* ["solution:not_found"].
C7_CheckSolutionFailList ==
    (pc = "returned" /\ fn = "check_solution") =>
        LET found == extract_solution(args.stdout)
            expected == args.expected
            Key(p) == IF 0 \in DOMAIN found THEN p - 1 ELSE p
            absent == { p \in 1..Len(expected) : Key(p) \notin DOMAIN found }
            differ == { p \in 1..Len(expected) :
                          /\ Key(p) \in DOMAIN found
                          /\ \/ found[Key(p)] - expected[p] > args.tol
                             \/ expected[p] - found[Key(p)] > args.tol }
            entries == { KeyNotFound(Key(p)) : p \in absent }
                       \cup { Mismatch(Key(p), expected[p]) : p \in differ }
        IN  IF DOMAIN found = {}
            THEN ret = <<SolutionNotFound>>
            ELSE /\ { ret[j] : j \in 1..Len(ret) } = entries
                 /\ Len(ret) = Cardinality(absent) + Cardinality(differ)

\* 1-based output, the first value off by exactly the tolerance, the second
\* key absent
C7_Witness ==
    /\ pc = "returned"
    /\ fn = "check_solution"
    /\ args.stdout = <<Jx(1, 2)>>
    /\ args.expected = <<1, 2>>
    /\ args.tol = 1
    /\ ret = <<KeyNotFound(2)>>

\* C8: a required substring and a required regex pattern written with
\* literal characters yield no missing entry when they occur in the output
\* up to the kind of dash, whichever side carries the typographic dash.
C8_DashesEqualInContainsAndRegex ==
    (pc = "returned" /\ fn \in {"check_contains", "check_regex"}) =>
        \A j \in 1..Len(args.expected) :
            LET item == args.expected[j]
            IN  ((\A m \in 1..Len(item) : item[m] # Dot)
                    /\ OccursUpToDashes(item, args.stdout)) =>
                \A m \in 1..Len(ret) : ret[m].item # item

====
